---- MODULE Spec2Model ----
(***************************************************************************)
(* TextureGraph (src/src/graph.rs): a directed acyclic graph of            *)
(* transformers with a result cache.                                       *)
(*                                                                         *)
(* Node indices are 1..Len(nodes) here (petgraph's NodeIndex 0..n-1        *)
(* shifted by one, since TLA+ sequences start at 1).  Target inputs        *)
(* ("slots", the edge weights) keep the code's 0-based numbering.          *)
(*                                                                         *)
(* The edge list `edges` is kept in insertion order.  petgraph links every *)
(* new edge at the head of its endpoints' adjacency lists and unlinks a    *)
(* removed edge without reordering the others, so an adjacency iterator    *)
(* (edges_directed, neighbors, neighbors_directed) yields the matching     *)
(* edges of `edges` from the most recently added to the oldest.            *)
(***************************************************************************)
EXTENDS Integers, Sequences, FiniteSets, TLC

\* ------------------------------------------------------------------ bounds
\* Largest number of nodes a graph is grown to.
MaxNodes == 3
\* Target inputs tried by add_edge are 0..MaxSlot (MaxSlot is out of range
\* for every transformer below, whose arity is at most 2).
MaxSlot == 2

\* ------------------------------------------------------------ transformers
\* The transformers of the graph's own test module, over i32.
Const(v) == [kind |-> "Const", c |-> v]
Add == [kind |-> "Add", c |-> 0]
Double == [kind |-> "Double", c |-> 0]

\* The transformers add_node is called with.
Transformers == {Const(1), Const(-1), Add, Double}

\* TextureTransformer::inputs
inputs(f) ==
    CASE f.kind = "Const" -> 0
      [] f.kind = "Double" -> 1
      [] f.kind = "Add" -> 2

RECURSIVE SumSeq(_)
SumSeq(s) == IF s = <<>> THEN 0 ELSE Head(s) + SumSeq(Tail(s))

\* TextureTransformer::generate (in is the ordered list of input values)
generate(f, in) ==
    CASE f.kind = "Const" -> f.c
      [] f.kind = "Double" -> in[1] * 2
      [] f.kind = "Add" -> SumSeq(in)

\* TextureTransformer::is_valid (default: true; Double overrides it)
is_valid(f, in) ==
    CASE f.kind = "Double" -> Len(in) > 0 /\ in[1] >= 0
      [] OTHER -> TRUE

\* --------------------------------------------------------------- the state
VARIABLES
    nodes,      \* g's node weights: nodes[i] is the transformer of node i
    edges,      \* g's edges, in insertion order: [source, target, weight]
    results,    \* the result cache: node index -> generated value
    cached,     \* the `cached` flag of the struct
    last,       \* the last call: its arguments, its outcome, the state before
    walk        \* the traversal in progress: the iterator's state, the nodes it yielded

vars == <<nodes, edges, results, cached, last, walk>>

\* The result strings of the code.
OK == "Ok"
ErrUnknown == "Unknown node"
ErrSelf == "Self feeding node"
ErrTarget == "Invalid target"
ErrCycle == "Edge would create cycle"
ErrIncomplete == "Node not completed"
ErrPredecessors == "Predecessors of node not generated"
ErrInvalid == "Input images not valid"
\* An index out of bounds (`self.g[index]`, Bfs::new) aborts the call.
Panic == "panic"

\* ---------------------------------------------------------- petgraph views
NodeIndices(ns) == 1..Len(ns)

\* g.node_weight(i).is_some()
node_weight_is_some(ns, i) == i \in NodeIndices(ns)

Edge(s, t, w) == [source |-> s, target |-> t, weight |-> w]

Reverse(s) == [i \in 1..Len(s) |-> s[Len(s) + 1 - i]]

\* g.edges_directed(n, Incoming): most recently added edge first.
edges_directed_incoming(es, n) ==
    Reverse(SelectSeq(es, LAMBDA e : e.target = n))

\* g.edges_directed(n, Outgoing) / g.neighbors(n): most recent first.
edges_directed_outgoing(es, n) ==
    Reverse(SelectSeq(es, LAMBDA e : e.source = n))

\* Mutant of remove_edge: the last edge is taken out, whatever k is.
remove_edge_last(es, k) == SubSeq(es, 1, Len(es) - 1)

\* g.remove_edge(id): the edge at position k leaves the list.
remove_edge(es, k) == [i \in 1..(Len(es) - 1) |-> IF i < k THEN es[i] ELSE es[i + 1]]

\* g.add_edge(a, b, w): the new edge is the most recent one.
g_add_edge(es, s, t, w) == Append(es, Edge(s, t, w))

\* Position in es of the first edge into dest with the given weight, as found
\* by edges_directed(dest, Incoming).find(..); 0 if there is none.
find_incoming(es, dest, target_input) ==
    LET hits == {k \in 1..Len(es) : es[k].target = dest /\ es[k].weight = target_input}
    IN IF hits = {} THEN 0 ELSE CHOOSE k \in hits : \A j \in hits : j <= k

\* Nodes reached from the set `seen` along edges (a traversal's visit set).
RECURSIVE Closure(_, _)
Closure(es, seen) ==
    LET next == seen \cup {es[k].target : k \in {j \in 1..Len(es) : es[j].source \in seen}}
    IN IF next = seen THEN seen ELSE Closure(es, next)

\* Mutant of Bfs: the traversal follows the edges backwards.
Bfs_backwards(es, start) ==
    Closure([k \in 1..Len(es) |-> Edge(es[k].target, es[k].source, es[k].weight)], {start})

\* The nodes Bfs::new(&g, start) visits: start and all nodes reachable from it.
Bfs(es, start) == Closure(es, {start})

\* petgraph::algo::is_cyclic_directed: a depth-first search meets a back edge,
\* that is, some edge's source is reached from its target.
is_cyclic_directed(ns, es) ==
    \E k \in 1..Len(es) : es[k].source \in Closure(es, {es[k].target})


\* ------------------------------------------------------------ result cache
NoResults == [n \in {} |-> 0]

\* results.contains_key(&n)
contains_key(rs, n) == n \in DOMAIN rs

\* Mutant of insert: the value is not stored.
insert_nothing(rs, n, v) == rs

\* results.insert(n, v)
insert(rs, n, v) == [m \in (DOMAIN rs) \cup {n} |-> IF m = n THEN v ELSE rs[m]]

\* results.remove(&n) for every n of a set
remove_all(rs, ms) == [m \in (DOMAIN rs) \ ms |-> rs[m]]

\* ------------------------------------------------------------ TextureGraph
\* Mutant of invalidate_nodes: only the source's own result is dropped.
invalidate_nodes_source_only(es, rs, source_index) == remove_all(rs, {source_index})

\* invalidate_nodes: drop the result of every node the Bfs from source visits.
invalidate_nodes(es, rs, source_index) == remove_all(rs, Bfs(es, source_index))

\* Mutant of node_complete: a node with too few incoming edges passes.
node_complete_at_most(ns, es, node_index) ==
    inputs(ns[node_index]) >= Len(edges_directed_incoming(es, node_index))

\* node_complete: arity = number of incoming edges.
node_complete(ns, es, node_index) ==
    inputs(ns[node_index]) = Len(edges_directed_incoming(es, node_index))

\* Mutant of graph_complete: one complete node is enough.
graph_complete_any(ns, es) == \E i \in NodeIndices(ns) : node_complete(ns, es, i)

\* graph_complete
graph_complete(ns, es) == \A i \in NodeIndices(ns) : node_complete(ns, es, i)

\* Mutant of add_edge_some: a refused replacement does not put the old edge back.
add_edge_some_no_restore(ns, es, rs, c, k, src, dest, target_input) ==
    LET removed == remove_edge(es, k)
        added == g_add_edge(removed, src, dest, target_input)
    IN IF is_cyclic_directed(ns, added)
       THEN [res |-> ErrCycle, edges |-> remove_edge(added, Len(added)),
             results |-> rs, cached |-> c]
       ELSE [res |-> OK, edges |-> added,
             results |-> invalidate_nodes(added, rs, dest), cached |-> FALSE]

\* Mutant of add_edge_some: the edge occupying the slot is not removed.
add_edge_some_keep_old(ns, es, rs, c, k, src, dest, target_input) ==
    LET added == g_add_edge(es, src, dest, target_input)
    IN IF is_cyclic_directed(ns, added)
       THEN [res |-> ErrCycle, edges |-> remove_edge(added, Len(added)),
             results |-> rs, cached |-> c]
       ELSE [res |-> OK, edges |-> added,
             results |-> invalidate_nodes(added, rs, dest), cached |-> FALSE]

\* Mutant of add_edge_some: a committed replacement invalidates nothing.
add_edge_some_no_invalidate(ns, es, rs, c, k, src, dest, target_input) ==
    LET old == es[k]
        removed == remove_edge(es, k)
        added == g_add_edge(removed, src, dest, target_input)
        new_edge == Len(added)
    IN IF is_cyclic_directed(ns, added)
       THEN [res |-> ErrCycle,
             edges |-> remove_edge(g_add_edge(added, old.source, old.target, old.weight),
                                   new_edge),
             results |-> rs, cached |-> c]
       ELSE [res |-> OK, edges |-> added, results |-> rs, cached |-> FALSE]

\* Mutant of add_edge_some: the oldest edge is removed instead of the slot's.
add_edge_some_remove_first(ns, es, rs, c, k, src, dest, target_input) ==
    LET old == es[1]
        removed == remove_edge(es, 1)
        added == g_add_edge(removed, src, dest, target_input)
        new_edge == Len(added)
    IN IF is_cyclic_directed(ns, added)
       THEN [res |-> ErrCycle,
             edges |-> remove_edge(g_add_edge(added, old.source, old.target, old.weight),
                                   new_edge),
             results |-> rs, cached |-> c]
       ELSE [res |-> OK, edges |-> added,
             results |-> invalidate_nodes(added, rs, dest), cached |-> FALSE]

\* Mutant of add_edge_some: the invalidation starts at the new source.
add_edge_some_invalidates_source(ns, es, rs, c, k, src, dest, target_input) ==
    LET old == es[k]
        removed == remove_edge(es, k)
        added == g_add_edge(removed, src, dest, target_input)
        new_edge == Len(added)
    IN IF is_cyclic_directed(ns, added)
       THEN [res |-> ErrCycle,
             edges |-> remove_edge(g_add_edge(added, old.source, old.target, old.weight),
                                   new_edge),
             results |-> rs, cached |-> c]
       ELSE [res |-> OK, edges |-> added,
             results |-> invalidate_nodes(added, rs, src), cached |-> FALSE]

\* add_edge, the branch Some(e): the slot is occupied by the edge at position k.
add_edge_some(ns, es, rs, c, k, src, dest, target_input) ==
    LET old == es[k]
        removed == remove_edge(es, k)
        added == g_add_edge(removed, src, dest, target_input)
        new_edge == Len(added)
    IN IF is_cyclic_directed(ns, added)
       THEN [res |-> ErrCycle,
             edges |-> remove_edge(g_add_edge(added, old.source, old.target, old.weight),
                                   new_edge),
             results |-> rs, cached |-> c]
       ELSE [res |-> OK, edges |-> added,
             results |-> invalidate_nodes(added, rs, dest), cached |-> FALSE]

\* Mutant of add_edge_none: the new edge is committed without the cycle check.
add_edge_none_unchecked(ns, es, rs, c, src, dest, target_input) ==
    [res |-> OK, edges |-> g_add_edge(es, src, dest, target_input),
     results |-> rs, cached |-> FALSE]

\* add_edge, the branch None: the slot is empty.
add_edge_none(ns, es, rs, c, src, dest, target_input) ==
    LET added == g_add_edge(es, src, dest, target_input)
        edge == Len(added)
    IN IF is_cyclic_directed(ns, added)
       THEN [res |-> ErrCycle, edges |-> remove_edge(added, edge),
             results |-> rs, cached |-> c]
       ELSE [res |-> OK, edges |-> added, results |-> rs, cached |-> FALSE]

\* Mutant of add_edge: the slot check lets target_input = arity through.
add_edge_slot_off_by_one(ns, es, rs, c, src, dest, target_input) ==
    LET unchanged(r) == [res |-> r, edges |-> es, results |-> rs, cached |-> c]
    IN IF ~node_weight_is_some(ns, src) THEN unchanged(ErrUnknown)
       ELSE IF ~node_weight_is_some(ns, dest) THEN unchanged(ErrUnknown)
       ELSE IF src = dest THEN unchanged(ErrSelf)
       ELSE IF target_input > inputs(ns[dest]) THEN unchanged(ErrTarget)
       ELSE LET k == find_incoming(es, dest, target_input)
            IN IF k # 0
               THEN add_edge_some(ns, es, rs, c, k, src, dest, target_input)
               ELSE add_edge_none(ns, es, rs, c, src, dest, target_input)

\* Mutant of add_edge: the slot is checked before the self-edge.
add_edge_target_before_self(ns, es, rs, c, src, dest, target_input) ==
    LET unchanged(r) == [res |-> r, edges |-> es, results |-> rs, cached |-> c]
    IN IF ~node_weight_is_some(ns, src) THEN unchanged(ErrUnknown)
       ELSE IF ~node_weight_is_some(ns, dest) THEN unchanged(ErrUnknown)
       ELSE IF target_input >= inputs(ns[dest]) THEN unchanged(ErrTarget)
       ELSE IF src = dest THEN unchanged(ErrSelf)
       ELSE LET k == find_incoming(es, dest, target_input)
            IN IF k # 0
               THEN add_edge_some(ns, es, rs, c, k, src, dest, target_input)
               ELSE add_edge_none(ns, es, rs, c, src, dest, target_input)

\* add_edge: the checks, then one of the two branches.
add_edge(ns, es, rs, c, src, dest, target_input) ==
    LET unchanged(r) == [res |-> r, edges |-> es, results |-> rs, cached |-> c]
    IN IF ~node_weight_is_some(ns, src) THEN unchanged(ErrUnknown)
       ELSE IF ~node_weight_is_some(ns, dest) THEN unchanged(ErrUnknown)
       ELSE IF src = dest THEN unchanged(ErrSelf)
       ELSE IF target_input >= inputs(ns[dest]) THEN unchanged(ErrTarget)
       ELSE LET k == find_incoming(es, dest, target_input)
            IN IF k # 0
               THEN add_edge_some(ns, es, rs, c, k, src, dest, target_input)
               ELSE add_edge_none(ns, es, rs, c, src, dest, target_input)

\* Vec::sort_by_key on (key, value) pairs: a stable sort, ascending by key.
RECURSIVE InsertByKey(_, _)
InsertByKey(sorted, x) ==
    IF sorted = <<>> THEN <<x>>
    ELSE IF Head(sorted)[1] <= x[1]
         THEN <<Head(sorted)>> \o InsertByKey(Tail(sorted), x)
         ELSE <<x>> \o sorted

RECURSIVE sort_by_key(_)
sort_by_key(s) ==
    IF s = <<>> THEN <<>>
    ELSE InsertByKey(sort_by_key(SubSeq(s, 1, Len(s) - 1)), s[Len(s)])

\* Mutant of sorted_inputs: the pairs are left in adjacency order.
sorted_inputs_unsorted(es, index) ==
    LET inc == edges_directed_incoming(es, index)
    IN [k \in 1..Len(inc) |-> <<inc[k].weight, inc[k].source>>]

\* The (target, source) pairs generate_node collects and sorts.
sorted_inputs(es, index) ==
    LET inc == edges_directed_incoming(es, index)
    IN sort_by_key([k \in 1..Len(inc) |-> <<inc[k].weight, inc[k].source>>])

Call(fn, n, in) == [fn |-> fn, node |-> n, inputs |-> in]

\* Mutant of generate_node: a predecessor without a result counts as 0.
generate_node_default_missing(ns, es, rs, index) ==
    IF ~node_complete(ns, es, index)
    THEN [res |-> ErrIncomplete, results |-> rs, calls |-> <<>>]
    ELSE LET ins == sorted_inputs(es, index)
             targets == [k \in 1..Len(ins) |-> ins[k][2]]
             vals == [k \in 1..Len(targets) |->
                         IF contains_key(rs, targets[k]) THEN rs[targets[k]] ELSE 0]
             node == ns[index]
         IN IF ~is_valid(node, vals)
            THEN [res |-> ErrInvalid, results |-> rs,
                  calls |-> <<Call("is_valid", index, vals)>>]
            ELSE [res |-> OK,
                  results |-> insert(rs, index, generate(node, vals)),
                  calls |-> <<Call("is_valid", index, vals),
                              Call("generate", index, vals)>>]

\* Mutant of generate_node: the transformer's is_valid is not consulted.
generate_node_no_valid(ns, es, rs, index) ==
    IF ~node_complete(ns, es, index)
    THEN [res |-> ErrIncomplete, results |-> rs, calls |-> <<>>]
    ELSE LET ins == sorted_inputs(es, index)
             targets == [k \in 1..Len(ins) |-> ins[k][2]]
         IN IF \E k \in 1..Len(targets) : ~contains_key(rs, targets[k])
            THEN [res |-> ErrPredecessors, results |-> rs, calls |-> <<>>]
            ELSE LET vals == [k \in 1..Len(targets) |-> rs[targets[k]]]
                 IN [res |-> OK,
                     results |-> insert(rs, index, generate(ns[index], vals)),
                     calls |-> <<Call("generate", index, vals)>>]

\* Mutant of generate_node: the completeness check is missing.
generate_node_no_complete_check(ns, es, rs, index) ==
    LET ins == sorted_inputs(es, index)
        targets == [k \in 1..Len(ins) |-> ins[k][2]]
    IN IF \E k \in 1..Len(targets) : ~contains_key(rs, targets[k])
       THEN [res |-> ErrPredecessors, results |-> rs, calls |-> <<>>]
       ELSE LET vals == [k \in 1..Len(targets) |-> rs[targets[k]]]
                node == ns[index]
            IN IF ~is_valid(node, vals)
               THEN [res |-> ErrInvalid, results |-> rs,
                     calls |-> <<Call("is_valid", index, vals)>>]
               ELSE [res |-> OK,
                     results |-> insert(rs, index, generate(node, vals)),
                     calls |-> <<Call("is_valid", index, vals),
                                 Call("generate", index, vals)>>]

\* Mutant of generate_node: a regenerated node drops the entries downstream
\* of it.
generate_node_invalidates_downstream(ns, es, rs, index) ==
    IF ~node_complete(ns, es, index)
    THEN [res |-> ErrIncomplete, results |-> rs, calls |-> <<>>]
    ELSE LET ins == sorted_inputs(es, index)
             targets == [k \in 1..Len(ins) |-> ins[k][2]]
         IN IF \E k \in 1..Len(targets) : ~contains_key(rs, targets[k])
            THEN [res |-> ErrPredecessors, results |-> rs, calls |-> <<>>]
            ELSE LET vals == [k \in 1..Len(targets) |-> rs[targets[k]]]
                     node == ns[index]
                 IN IF ~is_valid(node, vals)
                    THEN [res |-> ErrInvalid, results |-> rs,
                          calls |-> <<Call("is_valid", index, vals)>>]
                    ELSE [res |-> OK,
                          results |-> insert(invalidate_nodes(es, rs, index),
                                             index, generate(node, vals)),
                          calls |-> <<Call("is_valid", index, vals),
                                      Call("generate", index, vals)>>]

\* generate_node: the outcome, the cache after it, the transformer calls made.
generate_node(ns, es, rs, index) ==
    IF ~node_complete(ns, es, index)
    THEN [res |-> ErrIncomplete, results |-> rs, calls |-> <<>>]
    ELSE LET ins == sorted_inputs(es, index)
             targets == [k \in 1..Len(ins) |-> ins[k][2]]
         IN IF \E k \in 1..Len(targets) : ~contains_key(rs, targets[k])
            THEN [res |-> ErrPredecessors, results |-> rs, calls |-> <<>>]
            ELSE LET vals == [k \in 1..Len(targets) |-> rs[targets[k]]]
                     node == ns[index]
                 IN IF ~is_valid(node, vals)
                    THEN [res |-> ErrInvalid, results |-> rs,
                          calls |-> <<Call("is_valid", index, vals)>>]
                    ELSE [res |-> OK,
                          results |-> insert(rs, index, generate(node, vals)),
                          calls |-> <<Call("is_valid", index, vals),
                                      Call("generate", index, vals)>>]

\* Mutant of topo_initials: the walk starts from the first such node only.
topo_initials_first_only(ns, es) ==
    LET all == SelectSeq([i \in 1..Len(ns) |-> i],
                         LAMBDA a : Len(edges_directed_incoming(es, a)) = 0)
    IN IF all = <<>> THEN <<>> ELSE <<all[1]>>

\* Topo::new: the nodes without incoming edges, in index order.
topo_initials(ns, es) ==
    SelectSeq([i \in 1..Len(ns) |-> i],
              LAMBDA a : Len(edges_directed_incoming(es, a)) = 0)

\* Mutant of topo_run: a neighbour is pushed without waiting for its other
\* predecessors.
RECURSIVE topo_run_eager(_, _, _, _)
topo_run_eager(es, tovisit, ordered, out) ==
    IF tovisit = <<>> THEN out
    ELSE LET nix == tovisit[Len(tovisit)]
             rest == SubSeq(tovisit, 1, Len(tovisit) - 1)
         IN IF nix \in ordered THEN topo_run_eager(es, rest, ordered, out)
            ELSE LET outgoing == edges_directed_outgoing(es, nix)
                 IN topo_run_eager(es, rest \o [k \in 1..Len(outgoing) |-> outgoing[k].target],
                                   ordered \cup {nix}, Append(out, nix))

\* Topo::next, repeated until it returns None: the order the nodes come out.
RECURSIVE topo_run(_, _, _, _)
topo_run(es, tovisit, ordered, out) ==
    IF tovisit = <<>> THEN out
    ELSE LET nix == tovisit[Len(tovisit)]
             rest == SubSeq(tovisit, 1, Len(tovisit) - 1)
         IN IF nix \in ordered THEN topo_run(es, rest, ordered, out)
            ELSE LET ordered2 == ordered \cup {nix}
                     outgoing == edges_directed_outgoing(es, nix)
                     ready == SelectSeq(outgoing,
                         LAMBDA e : \A k \in 1..Len(es) :
                             es[k].target = e.target => es[k].source \in ordered2)
                 IN topo_run(es, rest \o [k \in 1..Len(ready) |-> ready[k].target],
                             ordered2, Append(out, nix))

Topo(ns, es) == topo_run(es, topo_initials(ns, es), {}, <<>>)

\* Mutant of generate_graph_loop: a failing node is passed over.
RECURSIVE generate_graph_loop_ignores_errors(_, _, _, _, _, _)
generate_graph_loop_ignores_errors(ns, es, rs, order, calls, visited) ==
    IF order = <<>>
    THEN [res |-> OK, results |-> rs, calls |-> calls, visited |-> visited]
    ELSE LET index == Head(order)
             r == generate_node(ns, es, rs, index)
         IN generate_graph_loop_ignores_errors(ns, es, r.results, Tail(order),
                                               calls \o r.calls, Append(visited, index))

\* Mutant of generate_graph_loop: a node that has a result is passed over.
RECURSIVE generate_graph_loop_skips_cached(_, _, _, _, _, _)
generate_graph_loop_skips_cached(ns, es, rs, order, calls, visited) ==
    IF order = <<>>
    THEN [res |-> OK, results |-> rs, calls |-> calls, visited |-> visited]
    ELSE LET index == Head(order)
         IN IF contains_key(rs, index)
            THEN generate_graph_loop_skips_cached(ns, es, rs, Tail(order), calls, visited)
            ELSE LET r == generate_node(ns, es, rs, index)
                 IN IF r.res = OK
                    THEN generate_graph_loop_skips_cached(ns, es, r.results, Tail(order),
                             calls \o r.calls, Append(visited, index))
                    ELSE [res |-> r.res, results |-> r.results,
                          calls |-> calls \o r.calls, visited |-> Append(visited, index)]

\* The loop of generate_graph over the remaining topological order.
RECURSIVE generate_graph_loop(_, _, _, _, _, _)
generate_graph_loop(ns, es, rs, order, calls, visited) ==
    IF order = <<>>
    THEN [res |-> OK, results |-> rs, calls |-> calls, visited |-> visited]
    ELSE LET index == Head(order)
             r == generate_node(ns, es, rs, index)
         IN IF r.res = OK
            THEN generate_graph_loop(ns, es, r.results, Tail(order),
                                     calls \o r.calls, Append(visited, index))
            ELSE [res |-> r.res, results |-> r.results,
                  calls |-> calls \o r.calls, visited |-> Append(visited, index)]

\* Mutant of generate_graph: a failure restores the cache of before the call.
generate_graph_rollback(ns, es, rs) ==
    LET r == generate_graph_loop(ns, es, rs, Topo(ns, es), <<>>, <<>>)
    IN IF r.res = OK THEN r
       ELSE [res |-> r.res, results |-> rs, calls |-> r.calls, visited |-> r.visited]

\* generate_graph
generate_graph(ns, es, rs) == generate_graph_loop(ns, es, rs, Topo(ns, es), <<>>, <<>>)

\* Mutant of generate_graph_missing_loop: no node is passed over.
RECURSIVE generate_graph_missing_loop_no_skip(_, _, _, _, _, _)
generate_graph_missing_loop_no_skip(ns, es, rs, order, calls, visited) ==
    IF order = <<>>
    THEN [res |-> OK, results |-> rs, calls |-> calls, visited |-> visited]
    ELSE LET index == Head(order)
             r == generate_node(ns, es, rs, index)
         IN IF r.res = OK
            THEN generate_graph_missing_loop_no_skip(ns, es, r.results, Tail(order),
                     calls \o r.calls, Append(visited, index))
            ELSE [res |-> r.res, results |-> r.results,
                  calls |-> calls \o r.calls, visited |-> Append(visited, index)]

\* The loop of generate_graph_missing over the remaining topological order.
RECURSIVE generate_graph_missing_loop(_, _, _, _, _, _)
generate_graph_missing_loop(ns, es, rs, order, calls, visited) ==
    IF order = <<>>
    THEN [res |-> OK, results |-> rs, calls |-> calls, visited |-> visited]
    ELSE LET index == Head(order)
         IN IF contains_key(rs, index)
            THEN generate_graph_missing_loop(ns, es, rs, Tail(order), calls, visited)
            ELSE LET r == generate_node(ns, es, rs, index)
                 IN IF r.res = OK
                    THEN generate_graph_missing_loop(ns, es, r.results, Tail(order),
                                                     calls \o r.calls, Append(visited, index))
                    ELSE [res |-> r.res, results |-> r.results,
                          calls |-> calls \o r.calls, visited |-> Append(visited, index)]

\* generate_graph_missing
generate_graph_missing(ns, es, rs) ==
    generate_graph_missing_loop(ns, es, rs, Topo(ns, es), <<>>, <<>>)

\* get_generated_node: the cached value, if any (a set of at most one value).
get_generated_node(rs, index) == IF contains_key(rs, index) THEN {rs[index]} ELSE {}

\* get_result: Some(&results[index]) when `cached`, else None.
get_result(rs, c, index) ==
    IF c THEN (IF contains_key(rs, index) THEN {rs[index]} ELSE {Panic}) ELSE {}

\* Mutant of get_node: indexing the graph, which panics on an index no node has.
get_node_unchecked(ns, index) == IF node_weight_is_some(ns, index) THEN {ns[index]} ELSE {Panic}

\* get_node: Some(node) for a live index, None otherwise.
get_node(ns, index) == IF node_weight_is_some(ns, index) THEN {ns[index]} ELSE {}

\* node_count
node_count(ns) == Len(ns)

\* ------------------------------------------------------------- the actions
\* What `last` records of a call.
Record(op, a, b, w, res, occ, calls, visited) ==
    [op |-> op, src |-> a, dst |-> b, slot |-> w, res |-> res, occupied |-> occ,
     pre_nodes |-> Len(nodes), pre_edges |-> edges, pre_results |-> results,
     pre_cached |-> cached, calls |-> calls, visited |-> visited, ret |-> {}]

\* Between two calls the caller holds no result.
Idle ==
    [op |-> "idle", src |-> 0, dst |-> 0, slot |-> 0, res |-> OK,
     occupied |-> FALSE, pre_nodes |-> 0, pre_edges |-> <<>>,
     pre_results |-> NoResults, pre_cached |-> FALSE,
     calls |-> <<>>, visited |-> <<>>, ret |-> {}]

\* What a traversal that has not returned yet holds in place of a result.
InProgress == "in progress"

\* No traversal is in progress.
NoWalk == [kind |-> "none", tovisit |-> <<>>, ordered |-> {}, visited |-> <<>>, res |-> OK]

Init ==
    /\ nodes = <<>>
    /\ edges = <<>>
    /\ results = NoResults
    /\ cached = FALSE
    /\ last = Idle
    /\ walk = NoWalk

\* The graph is used by one caller, one call at a time: a call is made when
\* the previous one has returned and its result has been taken.
Running == last.op = "idle"

\* The caller takes the result of the call that returned.  A call that
\* panicked does not return: nothing runs after it.
TakeResult ==
    /\ last.op # "idle"
    /\ last.res # Panic
    /\ last' = Idle
    /\ UNCHANGED <<nodes, edges, results, cached, walk>>

\* Mutant of AddNode: adding a node empties the cache.
AddNode_clears_cache(f) ==
    /\ Running
    /\ Len(nodes) < MaxNodes
    /\ nodes' = Append(nodes, f)
    /\ cached' = FALSE
    /\ results' = NoResults
    /\ last' = Record("add_node", Len(nodes) + 1, 0, 0, OK, FALSE, <<>>, <<>>)
    /\ UNCHANGED <<edges, walk>>

AddNode(f) ==
    /\ Running
    /\ Len(nodes) < MaxNodes
    /\ nodes' = Append(nodes, f)
    /\ cached' = FALSE
    /\ last' = Record("add_node", Len(nodes) + 1, 0, 0, OK, FALSE, <<>>, <<>>)
    /\ UNCHANGED <<edges, results, walk>>

AddEdge(src, dest, target_input) ==
    /\ Running
    /\ LET r == add_edge(nodes, edges, results, cached, src, dest, target_input)
           occ == /\ node_weight_is_some(nodes, dest)
                  /\ find_incoming(edges, dest, target_input) # 0
       IN /\ edges' = r.edges
          /\ results' = r.results
          /\ cached' = r.cached
          /\ last' = Record("add_edge", src, dest, target_input, r.res, occ, <<>>, <<>>)
    /\ UNCHANGED <<nodes, walk>>

InvalidateNodes(source_index) ==
    /\ Running
    /\ IF node_weight_is_some(nodes, source_index)
       THEN /\ results' = invalidate_nodes(edges, results, source_index)
            /\ last' = Record("invalidate_nodes", source_index, 0, 0, OK, FALSE, <<>>, <<>>)
       ELSE /\ results' = results
            /\ last' = Record("invalidate_nodes", source_index, 0, 0, Panic, FALSE, <<>>, <<>>)
    /\ UNCHANGED <<nodes, edges, cached, walk>>

GenerateNode(index) ==
    /\ Running
    /\ IF node_weight_is_some(nodes, index)
       THEN LET r == generate_node(nodes, edges, results, index)
            IN /\ results' = r.results
               /\ last' = Record("generate_node", index, 0, 0, r.res, FALSE,
                                 r.calls, <<index>>)
       ELSE /\ results' = results
            /\ last' = Record("generate_node", index, 0, 0, Panic, FALSE, <<>>, <<>>)
    /\ UNCHANGED <<nodes, edges, cached, walk>>

GenerateGraph ==
    /\ Running
    /\ LET r == generate_graph(nodes, edges, results)
       IN /\ results' = r.results
          /\ last' = Record("generate_graph", 0, 0, 0, r.res, FALSE, r.calls, r.visited)
    /\ UNCHANGED <<nodes, edges, cached, walk>>

GenerateGraphMissing ==
    /\ Running
    /\ LET r == generate_graph_missing(nodes, edges, results)
       IN /\ results' = r.results
          /\ last' = Record("generate_graph_missing", 0, 0, 0, r.res, FALSE,
                            r.calls, r.visited)
    /\ UNCHANGED <<nodes, edges, cached, walk>>

\* get_node: a query; `ret` holds the Option it returns (a set of at most one
\* node).
GetNode(index) ==
    /\ Running
    /\ last' = [Record("get_node", index, 0, 0, OK, FALSE, <<>>, <<>>)
                   EXCEPT !.ret = get_node(nodes, index)]
    /\ UNCHANGED <<nodes, edges, results, cached, walk>>

\* node_complete: a query; `&self.g[node_index]` panics on an index that no
\* node has.
NodeComplete(node_index) ==
    /\ Running
    /\ IF node_weight_is_some(nodes, node_index)
       THEN last' = [Record("node_complete", node_index, 0, 0, OK, FALSE, <<>>, <<>>)
                        EXCEPT !.ret = {node_complete(nodes, edges, node_index)}]
       ELSE last' = Record("node_complete", node_index, 0, 0, Panic, FALSE, <<>>, <<>>)
    /\ UNCHANGED <<nodes, edges, results, cached, walk>>

\* Indices a caller passes: the live ones and one that no node has.
Indices == 1..(Len(nodes) + 1)

Next ==
    \/ \E f \in Transformers : AddNode(f)
    \/ \E src \in Indices, dest \in Indices, t \in 0..MaxSlot : AddEdge(src, dest, t)
    \/ \E i \in Indices : InvalidateNodes(i)
    \/ \E i \in Indices : GenerateNode(i)
    \/ GenerateGraph
    \/ GenerateGraphMissing
    \/ \E i \in Indices : GetNode(i)
    \/ \E i \in Indices : NodeComplete(i)
    \/ TakeResult

Spec == Init /\ [][Next]_vars

\* ------------------------------------------------- the traversals, stepwise
\* generate_graph, generate_graph_missing and invalidate_nodes as the loops
\* they are: one step per iteration of the iterator's loop, on the graphs
\* that add_node and add_edge build.

\* The slots of the nodes ns: (node, slot) with the slot below the arity.
Slots(ns) == {s \in (1..Len(ns)) \X (0..MaxSlot) : s[2] < inputs(ns[s[1]])}

\* The edge sets add_edge builds on ns: each slot empty (0) or fed by one
\* other node, in any order of insertion, without a cycle.
BuiltEdges(ns) ==
    LET Feeds == {a \in [Slots(ns) -> 0..Len(ns)] : \A s \in Slots(ns) : a[s] # s[1]}
        EdgesOf(a) == {Edge(a[s], s[1], s[2]) : s \in {x \in Slots(ns) : a[x] # 0}}
        Orders(E) == {es \in [1..Cardinality(E) -> E] :
                         \A i, j \in 1..Cardinality(E) : es[i] = es[j] => i = j}
    IN {es \in UNION {Orders(EdgesOf(a)) : a \in Feeds} : ~is_cyclic_directed(ns, es)}

\* A graph built by add_node and add_edge, nothing generated yet.
InitWalk ==
    /\ nodes \in UNION {[1..n -> Transformers] : n \in 0..MaxNodes}
    /\ edges \in BuiltEdges(nodes)
    /\ results = NoResults
    /\ cached = FALSE
    /\ last = Idle
    /\ walk = NoWalk

\* Mutant of Topo_next: a node already ordered is yielded again.
Topo_next_no_ordered_check(es, tovisit, ordered) ==
    LET nix == tovisit[Len(tovisit)]
        rest == SubSeq(tovisit, 1, Len(tovisit) - 1)
        ordered2 == ordered \cup {nix}
        outgoing == edges_directed_outgoing(es, nix)
        ready == SelectSeq(outgoing,
            LAMBDA e : \A k \in 1..Len(es) :
                es[k].target = e.target => es[k].source \in ordered2)
    IN [yield |-> {nix}, ordered |-> ordered2,
        tovisit |-> rest \o [k \in 1..Len(ready) |-> ready[k].target]]

\* One iteration of the loop of Topo::next: pop a node; if it is ordered
\* already go on, else order it, push the neighbours all of whose
\* predecessors are ordered, and yield it.
Topo_next(es, tovisit, ordered) ==
    LET nix == tovisit[Len(tovisit)]
        rest == SubSeq(tovisit, 1, Len(tovisit) - 1)
        ordered2 == ordered \cup {nix}
        outgoing == edges_directed_outgoing(es, nix)
        ready == SelectSeq(outgoing,
            LAMBDA e : \A k \in 1..Len(es) :
                es[k].target = e.target => es[k].source \in ordered2)
    IN IF nix \in ordered
       THEN [yield |-> {}, ordered |-> ordered, tovisit |-> rest]
       ELSE [yield |-> {nix}, ordered |-> ordered2,
             tovisit |-> rest \o [k \in 1..Len(ready) |-> ready[k].target]]

\* Bfs::next on a non-empty queue: take the front node, mark and queue its
\* undiscovered successors, yield it.
Bfs_next(es, stack, discovered) ==
    LET node == Head(stack)
        succ == edges_directed_outgoing(es, node)
        fresh == SelectSeq([k \in 1..Len(succ) |-> k],
            LAMBDA k : /\ succ[k].target \notin discovered
                       /\ \A j \in 1..(k - 1) : succ[j].target # succ[k].target)
    IN [yield |-> {node},
        ordered |-> discovered \cup {succ[k].target : k \in 1..Len(succ)},
        tovisit |-> Tail(stack) \o [m \in 1..Len(fresh) |-> succ[fresh[m]].target]]

\* generate_graph is called: Topo::new.
StartGenerateGraph ==
    /\ walk = NoWalk
    /\ walk' = [kind |-> "generate_graph", tovisit |-> topo_initials(nodes, edges),
                ordered |-> {}, visited |-> <<>>, res |-> InProgress]
    /\ UNCHANGED <<nodes, edges, results, cached, last>>

\* generate_graph_missing is called: Topo::new.
StartGenerateGraphMissing ==
    /\ walk = NoWalk
    /\ walk' = [kind |-> "generate_graph_missing", tovisit |-> topo_initials(nodes, edges),
                ordered |-> {}, visited |-> <<>>, res |-> InProgress]
    /\ UNCHANGED <<nodes, edges, results, cached, last>>

\* invalidate_nodes is called on a live node: Bfs::new.
StartInvalidateNodes(source_index) ==
    /\ walk = NoWalk
    /\ node_weight_is_some(nodes, source_index)
    /\ walk' = [kind |-> "invalidate_nodes", tovisit |-> <<source_index>>,
                ordered |-> {source_index}, visited |-> <<>>, res |-> InProgress]
    /\ UNCHANGED <<nodes, edges, results, cached, last>>

\* One iteration of the loop of generate_graph / generate_graph_missing on
\* the traversal w and the cache rs: Topo::next pops; a yielded node is
\* skipped (generate_graph_missing, cached) or generated, and a failure ends
\* the call; an empty stack ends it with Ok.
generate_graph_step(ns, es, rs, w) ==
    IF w.tovisit = <<>>
    THEN [walk |-> [w EXCEPT !.res = OK], results |-> rs]
    ELSE LET t == Topo_next(es, w.tovisit, w.ordered)
             moved == [w EXCEPT !.tovisit = t.tovisit, !.ordered = t.ordered]
         IN IF t.yield = {}
            THEN [walk |-> moved, results |-> rs]
            ELSE LET index == CHOOSE n \in t.yield : TRUE
                     seen == [moved EXCEPT !.visited = Append(@, index)]
                     r == generate_node(ns, es, rs, index)
                 IN IF w.kind = "generate_graph_missing" /\ contains_key(rs, index)
                    THEN [walk |-> seen, results |-> rs]
                    ELSE [walk |-> [seen EXCEPT !.res = IF r.res = OK THEN InProgress
                                                                       ELSE r.res],
                          results |-> r.results]

\* The loop of generate_graph / generate_graph_missing has not ended.
InTopoLoop ==
    /\ walk.kind \in {"generate_graph", "generate_graph_missing"}
    /\ walk.res = InProgress

TopoNext ==
    /\ InTopoLoop
    /\ walk' = generate_graph_step(nodes, edges, results, walk).walk
    /\ results' = generate_graph_step(nodes, edges, results, walk).results
    /\ UNCHANGED <<nodes, edges, cached, last>>

\* One iteration of the loop of invalidate_nodes: Bfs::next yields a node and
\* its entry is removed; an empty queue ends the call.
\* The loop of invalidate_nodes has not ended.
InBfsLoop ==
    /\ walk.kind = "invalidate_nodes"
    /\ walk.res = InProgress

BfsNext ==
    /\ InBfsLoop
    /\ IF walk.tovisit = <<>>
       THEN /\ walk' = [walk EXCEPT !.res = OK]
            /\ results' = results
       ELSE LET b == Bfs_next(edges, walk.tovisit, walk.ordered)
                nx == CHOOSE n \in b.yield : TRUE
            IN /\ walk' = [walk EXCEPT !.tovisit = b.tovisit, !.ordered = b.ordered,
                                       !.visited = Append(@, nx)]
               /\ results' = remove_all(results, {nx})
    /\ UNCHANGED <<nodes, edges, cached, last>>

\* The loop of the call has ended, with Ok or a failure.
AtReturn ==
    /\ walk.kind # "none"
    /\ walk.res # InProgress

\* The call returns.
WalkReturn ==
    /\ AtReturn
    /\ walk' = NoWalk
    /\ UNCHANGED <<nodes, edges, results, cached, last>>

NextWalk ==
    \/ StartGenerateGraph
    \/ StartGenerateGraphMissing
    \/ \E i \in 1..Len(nodes) : StartInvalidateNodes(i)
    \/ TopoNext
    \/ BfsNext
    \/ WalkReturn

\* The code runs on: a loop iteration that can be taken is taken, a call that
\* can return returns (every transformer call returns).
SpecWalk ==
    /\ InitWalk
    /\ [][NextWalk]_vars
    /\ WF_vars(TopoNext)
    /\ WF_vars(BfsNext)
    /\ WF_vars(WalkReturn)


\* ------------------------------------------------- vocabulary of the claims
\* The edges as a set of (source, target, weight) triples.
EdgeSet(es) == {es[k] : k \in 1..Len(es)}

\* Nodes reachable from n along the edges of E, n included.
RECURSIVE ReachFrom(_, _)
ReachFrom(E, S) ==
    LET T == S \cup {e.target : e \in {d \in E : d.source \in S}}
    IN IF T = S THEN S ELSE ReachFrom(E, T)

Reachable(E, n) == ReachFrom(E, {n})

\* E has a directed cycle: some edge's source is reachable from its target.
HasCycle(E) == \E e \in E : e.source \in Reachable(E, e.target)

\* The edges of E into slot w of node n.
SlotEdges(E, n, w) == {e \in E : e.target = n /\ e.weight = w}

\* The source feeding slot w of node n (when exactly one edge does).
SlotSource(E, n, w) == (CHOOSE e \in SlotEdges(E, n, w) : TRUE).source

\* rs and qs hold the same entries outside the set D, and rs holds none in D.
SameExceptDropped(rs, qs, D) ==
    /\ DOMAIN rs = (DOMAIN qs) \ D
    /\ \A n \in DOMAIN rs : rs[n] = qs[n]

LastAddEdge == last.op = "add_edge"
LastAddEdgeOk == LastAddEdge /\ last.res = OK
PreEdgeSet == EdgeSet(last.pre_edges)
NewEdge == Edge(last.src, last.dst, last.slot)

\* --------------------------------------------------------------------- C1
\* C1: in every reachable state the edge relation is acyclic.
C1_Acyclic == ~HasCycle(EdgeSet(edges))

\* An edge into an empty slot was just refused for closing a cycle of length
\* three.
C1_Witness ==
    /\ LastAddEdge /\ last.res = ErrCycle /\ ~last.occupied
    /\ Len(edges) >= 2
    /\ ~\E e \in EdgeSet(edges) : e.source = last.dst /\ e.target = last.src

\* --------------------------------------------------------------------- C2
\* C2: an add_edge whose edge would create a cycle reports the cycle failure
\* and leaves the node set and the set of edges as they were, whether the
\* slot was empty or occupied.
C2_CycleRejectedRollsBack ==
    LastAddEdge =>
        LET tentative == (PreEdgeSet \ SlotEdges(PreEdgeSet, last.dst, last.slot))
                             \cup {NewEdge}
            valid == /\ last.src \in 1..last.pre_nodes
                     /\ last.dst \in 1..last.pre_nodes
                     /\ last.src # last.dst
                     /\ last.slot < inputs(nodes[last.dst])
        IN /\ (valid /\ HasCycle(tentative)) => last.res = ErrCycle
           /\ last.res = ErrCycle =>
                  /\ Len(nodes) = last.pre_nodes
                  /\ EdgeSet(edges) = PreEdgeSet
                  /\ Len(edges) = Len(last.pre_edges)

\* A replacement was refused: the slot was occupied by an edge from another
\* source, and the old edge is back.
C2_Witness ==
    /\ LastAddEdge /\ last.res = ErrCycle /\ last.occupied
    /\ SlotSource(EdgeSet(edges), last.dst, last.slot) # last.src
    /\ Len(edges) >= 2

\* --------------------------------------------------------------------- C3
\* C3: at most one incoming edge per (destination, target slot).
C3_OneEdgePerSlot ==
    \A i, j \in 1..Len(edges) :
        (edges[i].target = edges[j].target /\ edges[i].weight = edges[j].weight) => i = j

\* An occupied slot was just given another source.
C3_Witness ==
    /\ LastAddEdgeOk /\ last.occupied
    /\ SlotSource(PreEdgeSet, last.dst, last.slot) # last.src

\* --------------------------------------------------------------------- C4
\* C4: a successful add_edge into an occupied slot removes the cache entries
\* of the destination and of every node reachable from it, and leaves every
\* other entry (old source, new source, other predecessors) as it was.
C4_ReplaceInvalidatesForward ==
    (LastAddEdgeOk /\ last.occupied) =>
        LET E == EdgeSet(edges)
            R == Reachable(E, last.dst)
            others == {SlotSource(PreEdgeSet, last.dst, last.slot), last.src}
                          \cup {e.source : e \in {d \in E : d.target = last.dst}}
        IN /\ SameExceptDropped(results, last.pre_results, R)
           /\ \A n \in others \cap DOMAIN last.pre_results :
                  n \in DOMAIN results /\ results[n] = last.pre_results[n]

\* The destination and a node downstream of it were cached and lost their
\* entries; the old source keeps its entry.
C4_Witness ==
    /\ LastAddEdgeOk /\ last.occupied
    /\ last.dst \in DOMAIN last.pre_results
    /\ \E n \in DOMAIN last.pre_results :
           n # last.dst /\ n \in Reachable(EdgeSet(edges), last.dst)
    /\ SlotSource(PreEdgeSet, last.dst, last.slot) \in DOMAIN results

\* --------------------------------------------------------------------- C5
\* C5: invalidate_nodes(X) on a live node removes the entries of X and of all
\* nodes reachable from X, keeps every other entry with its value, and
\* leaves nodes and edges alone.
C5_InvalidateForward ==
    (last.op = "invalidate_nodes" /\ last.res = OK) =>
        /\ SameExceptDropped(results, last.pre_results,
                             Reachable(EdgeSet(edges), last.src))
        /\ Len(nodes) = last.pre_nodes
        /\ edges = last.pre_edges

\* X and a successor of X lost their entries, another node kept its entry.
C5_Witness ==
    /\ last.op = "invalidate_nodes" /\ last.res = OK
    /\ last.src \in DOMAIN last.pre_results
    /\ \E n \in DOMAIN last.pre_results :
           n # last.src /\ n \in Reachable(EdgeSet(edges), last.src)
    /\ DOMAIN results # {}


\* --------------------------------------------------------------------- C6
\* The values a node's transformer is to be fed: for each slot 0..arity-1 the
\* entry of rs for the source feeding that slot.
SlotValues(ns, E, rs, n) ==
    [i \in 1..inputs(ns[n]) |-> rs[SlotSource(E, n, i - 1)]]

\* C6: cache coherence.  Every node with a cache entry has all its
\* predecessors cached, and its entry is its transformer's generate applied to
\* the cached values of the sources of its incoming edges, in slot order.
C6_CacheCoherent ==
    LET E == EdgeSet(edges)
    IN \A n \in DOMAIN results :
        /\ \A e \in E : e.target = n => e.source \in DOMAIN results
        /\ \A w \in 0..(inputs(nodes[n]) - 1) : SlotEdges(E, n, w) # {}
        /\ results[n] = generate(nodes[n], SlotValues(nodes, E, results, n))

\* An edge was just replaced while a node computed from an input keeps its
\* cache entry, and the replaced edge's old and new sources hold different values.
C6_Witness ==
    /\ LastAddEdgeOk /\ last.occupied
    /\ \E n \in DOMAIN results : inputs(nodes[n]) > 0
    /\ LET old == SlotSource(PreEdgeSet, last.dst, last.slot)
       IN /\ old \in DOMAIN results /\ last.src \in DOMAIN results
          /\ results[old] # results[last.src]
    /\ last.dst \in DOMAIN last.pre_results

\* --------------------------------------------------------------------- C7
\* C7: add_edge succeeds iff both nodes are live, they differ, the slot is
\* below the destination's arity and the graph with the edge tentatively put
\* in (the slot's old edge taken out) is acyclic; a call that fails for an
\* unknown node, a self-edge or an out-of-range slot changes nothing.
C7_AddEdgeSucceedsIff ==
    LastAddEdge =>
        LET live == last.src \in 1..last.pre_nodes /\ last.dst \in 1..last.pre_nodes
            early == \/ ~live
                     \/ last.src = last.dst
                     \/ last.slot >= inputs(nodes[last.dst])
            tentative == (PreEdgeSet \ SlotEdges(PreEdgeSet, last.dst, last.slot))
                             \cup {NewEdge}
        IN /\ last.res = OK <=> (~early /\ ~HasCycle(tentative))
           /\ early =>
                  /\ last.res \in {ErrUnknown, ErrSelf, ErrTarget}
                  /\ Len(nodes) = last.pre_nodes
                  /\ edges = last.pre_edges
                  /\ results = last.pre_results

\* add_edge(N, N, 0) on a graph whose only node is N: refused, no edge.
C7_Witness ==
    /\ LastAddEdge /\ Len(nodes) = 1
    /\ last.src = 1 /\ last.dst = 1 /\ last.slot = 0
    /\ last.res = ErrSelf
    /\ Len(edges) = 0

\* --------------------------------------------------------------------- C8
\* C8: a successful add_edge into an empty slot adds exactly its triple and
\* raises the edge count by one; into an occupied slot it replaces exactly
\* the edge of that slot and keeps the edge count; all other edges stay.
C8_AddEdgeFrame ==
    LastAddEdgeOk =>
        LET old == SlotEdges(PreEdgeSet, last.dst, last.slot)
        IN /\ last.occupied <=> old # {}
           /\ EdgeSet(edges) = (PreEdgeSet \ old) \cup {NewEdge}
           /\ Len(edges) = Cardinality(EdgeSet(edges))
           /\ IF last.occupied
              THEN Len(edges) = Len(last.pre_edges) /\ Cardinality(old) = 1
              ELSE Len(edges) = Len(last.pre_edges) + 1 /\ NewEdge \notin PreEdgeSet

\* A replacement in a graph with other edges: the replaced edge is neither
\* the oldest nor the only one.
C8_Witness ==
    /\ LastAddEdgeOk /\ last.occupied
    /\ Len(edges) >= 2
    /\ last.pre_edges[1] \in EdgeSet(edges)
    /\ NewEdge \notin PreEdgeSet

\* --------------------------------------------------------------------- C9
\* The cache a transformer call of the last operation read its inputs from:
\* generate_node reads the cache as it was before the call; in a traversal
\* the sources of a node were visited before it and keep that value.
CacheRead == IF last.op = "generate_node" THEN last.pre_results ELSE results

\* C9: whenever generate_node calls is_valid or generate for a node, the input
\* list has arity(node) elements and element i is the cached value of the
\* source of the edge into slot i; on success the result of generate is the
\* node's cache entry afterwards, replacing any previous one.
C9_InputsInSlotOrder ==
    /\ \A k \in 1..Len(last.calls) :
           LET c == last.calls[k]
           IN /\ Len(c.inputs) = inputs(nodes[c.node])
              /\ \A i \in 1..Len(c.inputs) :
                     /\ Cardinality(SlotEdges(EdgeSet(edges), c.node, i - 1)) = 1
                     /\ c.inputs[i] = CacheRead[SlotSource(EdgeSet(edges), c.node, i - 1)]
    /\ (last.op = "generate_node" /\ last.res = OK) =>
           /\ Len(last.calls) = 2
           /\ last.calls[2].fn = "generate" /\ last.calls[2].node = last.src
           /\ results = insert(last.pre_results, last.src,
                               generate(nodes[last.src], last.calls[2].inputs))

\* generate_node succeeded on a node with two slots fed by different values,
\* slot 1 wired before slot 0 and then slot 0 wired last, overwriting an entry.
C9_Witness ==
    /\ last.op = "generate_node" /\ last.res = OK
    /\ inputs(nodes[last.src]) = 2
    /\ last.calls[2].inputs[1] # last.calls[2].inputs[2]
    /\ last.src \in DOMAIN last.pre_results
    /\ \E i, j \in 1..Len(edges) :
           /\ i < j
           /\ edges[i].target = last.src /\ edges[i].weight = 1
           /\ edges[j].target = last.src /\ edges[j].weight = 0

\* -------------------------------------------------------------------- C10
\* The number of edges into node n.
InDegree(es, n) == Cardinality({k \in 1..Len(es) : es[k].target = n})

\* C10: generate_node on a node whose in-degree is below its arity fails with
\* the not-completed error, calls no transformer and leaves the cache as it was.
C10_IncompleteNodeRefused ==
    (/\ last.op = "generate_node"
     /\ last.src \in 1..Len(nodes)
     /\ InDegree(edges, last.src) < inputs(nodes[last.src])) =>
        /\ last.res = ErrIncomplete
        /\ last.calls = <<>>
        /\ results = last.pre_results

\* generate_node on a two-input node with one slot wired from a cached source.
C10_Witness ==
    /\ last.op = "generate_node" /\ last.res = ErrIncomplete
    /\ inputs(nodes[last.src]) = 2
    /\ InDegree(edges, last.src) = 1
    /\ \E e \in EdgeSet(edges) : e.target = last.src /\ e.source \in DOMAIN results


\* -------------------------------------------------------------------- C11
\* The sources of the edges into node n.
Predecessors(E, n) == {e.source : e \in {d \in E : d.target = n}}

LastGenerateNode == last.op = "generate_node" /\ last.src \in 1..Len(nodes)

\* C11: generate_node on a complete node with a predecessor that has no cache
\* entry fails with the predecessors error, calls neither is_valid nor
\* generate, does not evaluate the predecessor and leaves the cache as it was.
C11_MissingPredecessorRefused ==
    (/\ LastGenerateNode
     /\ InDegree(edges, last.src) = inputs(nodes[last.src])
     /\ Predecessors(EdgeSet(edges), last.src) \ DOMAIN last.pre_results # {}) =>
        /\ last.res = ErrPredecessors
        /\ last.calls = <<>>
        /\ results = last.pre_results

\* generate_node on a complete two-input node, one source cached, one not,
\* the uncached source being a node that could be generated.
C11_Witness ==
    /\ LastGenerateNode /\ last.res = ErrPredecessors
    /\ inputs(nodes[last.src]) = 2
    /\ \E p, q \in Predecessors(EdgeSet(edges), last.src) :
           /\ p \in DOMAIN results
           /\ q \notin DOMAIN results
           /\ inputs(nodes[q]) = 0

\* -------------------------------------------------------------------- C12
\* C12: generate_node on a complete node whose predecessors are all cached but
\* whose is_valid rejects the slot-ordered inputs fails with the invalid-inputs
\* error, does not call generate and writes no cache entry.
C12_InvalidInputsRefused ==
    (/\ LastGenerateNode
     /\ InDegree(edges, last.src) = inputs(nodes[last.src])
     /\ Predecessors(EdgeSet(edges), last.src) \subseteq DOMAIN last.pre_results
     /\ ~is_valid(nodes[last.src],
                  SlotValues(nodes, EdgeSet(edges), last.pre_results, last.src))) =>
        /\ last.res = ErrInvalid
        /\ \A k \in 1..Len(last.calls) : last.calls[k].fn # "generate"
        /\ results = last.pre_results
        /\ last.src \notin DOMAIN results

\* Const(-1) feeds a Double: generate_node on the Double is refused.
C12_Witness ==
    /\ LastGenerateNode /\ last.res = ErrInvalid
    /\ nodes[last.src] = Double
    /\ last.calls = <<Call("is_valid", last.src, <<-1>>)>>

\* -------------------------------------------------------------------- C13
\* C13: after a successful generate_graph every node has a cache entry that
\* get_generated_node returns, and each entry is the node's transformer
\* applied to the cached values of its predecessors in slot order.
C13_GenerateGraphFillsCache ==
    (last.op = "generate_graph" /\ last.res = OK) =>
        \A n \in NodeIndices(nodes) :
            /\ get_generated_node(results, n) # {}
            /\ \A w \in 0..(inputs(nodes[n]) - 1) :
                   Cardinality(SlotEdges(EdgeSet(edges), n, w)) = 1
            /\ get_generated_node(results, n) =
                   {generate(nodes[n], SlotValues(nodes, EdgeSet(edges), results, n))}

\* Const(1) into slot 0 and Const(-1) into slot 1 of an Add: 1, -1 and 0.
C13_Witness ==
    /\ last.op = "generate_graph" /\ last.res = OK
    /\ \E a, b, c \in NodeIndices(nodes) :
           /\ nodes[a] = Const(1) /\ nodes[b] = Const(-1) /\ nodes[c] = Add
           /\ EdgeSet(edges) = {Edge(a, c, 0), Edge(b, c, 1)}
           /\ results[a] = 1 /\ results[b] = -1 /\ results[c] = 0


\* -------------------------------------------------------------------- C14
\* C14: get_result(i) returns the cached value of node i whenever the cache
\* holds an entry for i, exactly as get_generated_node(i) does.
C14_GetResultReturnsCached ==
    \A n \in DOMAIN results :
        get_result(results, cached, n) = get_generated_node(results, n)

\* -------------------------------------------------------------------- C15
\* How often the last call invoked the transformer function fn of node n.
CallCount(fn, n) ==
    Cardinality({k \in 1..Len(last.calls) :
                    last.calls[k].fn = fn /\ last.calls[k].node = n})

\* The failure generate_node reports for node n against the cache rs.
FailureAt(rs, n) ==
    IF InDegree(edges, n) # inputs(nodes[n]) THEN ErrIncomplete
    ELSE IF ~(Predecessors(EdgeSet(edges), n) \subseteq DOMAIN rs) THEN ErrPredecessors
    ELSE IF ~is_valid(nodes[n], SlotValues(nodes, EdgeSet(edges), rs, n)) THEN ErrInvalid
    ELSE OK

\* C15: a failing generate_graph returns the failure of the first node of its
\* topological order that fails and evaluates no node after it; the nodes
\* evaluated before keep their freshly computed entries, the entries of the
\* failing node and of the later nodes are those of before the call.
C15_GenerateGraphStopsAtFirstFailure ==
    (last.op = "generate_graph" /\ last.res # OK) =>
        LET k == Len(last.visited)
            failing == last.visited[k]
            done == {last.visited[i] : i \in 1..(k - 1)}
        IN /\ k >= 1
           /\ last.visited = SubSeq(Topo(nodes, edges), 1, k)
           /\ \A n \in done :
                  /\ n \in DOMAIN results
                  /\ CallCount("generate", n) = 1
                  /\ results[n] = generate(nodes[n],
                                           SlotValues(nodes, EdgeSet(edges), results, n))
           /\ last.res = FailureAt(results, failing)
           /\ \A n \in NodeIndices(nodes) \ done :
                  /\ CallCount("generate", n) = 0
                  /\ n \in DOMAIN results <=> n \in DOMAIN last.pre_results
                  /\ n \in DOMAIN results => results[n] = last.pre_results[n]
           /\ \A n \in NodeIndices(nodes) \ (done \cup {failing}) :
                  CallCount("is_valid", n) = 0

\* A node got a fresh entry, then a node failed, and a node later in the
\* order still holds the entry it had.
C15_Witness ==
    /\ last.op = "generate_graph" /\ last.res # OK
    /\ \E i \in 1..(Len(last.visited) - 1) :
           last.visited[i] \notin DOMAIN last.pre_results
    /\ \E n \in DOMAIN results :
           \A i \in 1..Len(last.visited) : last.visited[i] # n

\* -------------------------------------------------------------------- C16
\* C16: a successful generate_graph calls generate exactly once for every
\* node, the nodes that had a cache entry before the call included.
C16_GenerateGraphCallsEveryNodeOnce ==
    (last.op = "generate_graph" /\ last.res = OK) =>
        \A n \in NodeIndices(nodes) : CallCount("generate", n) = 1

\* The graph had cached and uncached nodes, one of the cached ones with inputs.
C16_Witness ==
    /\ last.op = "generate_graph" /\ last.res = OK
    /\ \E n \in DOMAIN last.pre_results : inputs(nodes[n]) > 0
    /\ DOMAIN last.pre_results # NodeIndices(nodes)

\* -------------------------------------------------------------------- C17
\* C17: generate_graph_missing calls no transformer on a node that has a cache
\* entry when the traversal reaches it; the entries present before the call
\* are unchanged; a successful call calls generate exactly once for each node
\* that had no entry and leaves every node cached.
C17_GenerateMissingSkipsCached ==
    last.op = "generate_graph_missing" =>
        /\ \A k \in 1..Len(last.calls) :
               last.calls[k].node \notin DOMAIN last.pre_results
        /\ \A n \in NodeIndices(nodes) :
               CallCount("is_valid", n) <= 1 /\ CallCount("generate", n) <= 1
        /\ \A n \in DOMAIN last.pre_results :
               n \in DOMAIN results /\ results[n] = last.pre_results[n]
        /\ last.res = OK =>
               /\ DOMAIN results = NodeIndices(nodes)
               /\ \A n \in NodeIndices(nodes) :
                      CallCount("generate", n) =
                          IF n \in DOMAIN last.pre_results THEN 0 ELSE 1

\* A successful call on a graph where a node with inputs was cached and a
\* node downstream of a cached node was not.
C17_Witness ==
    /\ last.op = "generate_graph_missing" /\ last.res = OK
    /\ \E n \in DOMAIN last.pre_results : inputs(nodes[n]) > 0
    /\ \E n \in NodeIndices(nodes) \ DOMAIN last.pre_results :
           Predecessors(EdgeSet(edges), n) \cap DOMAIN last.pre_results # {}


\* -------------------------------------------------------------------- C18
\* How often the call list cs has the transformer function fn of node n.
CallsOf(cs, fn, n) ==
    Cardinality({k \in 1..Len(cs) : cs[k].fn = fn /\ cs[k].node = n})

\* The call that follows the last one with nothing in between, if it is
\* generate_graph_missing: its outcome on the present graph and cache.
FollowingMissing == generate_graph_missing(nodes, edges, results)

\* C18: generate_graph followed immediately by generate_graph_missing: the
\* second call invokes generate for no node and leaves the cache unchanged.
C18_MissingAfterGenerateIsIdle ==
    last.op = "generate_graph" =>
        /\ \A n \in NodeIndices(nodes) : CallsOf(FollowingMissing.calls, "generate", n) = 0
        /\ FollowingMissing.results = results

\* generate_graph has just filled the cache of a three-node graph with edges.
C18_Witness ==
    /\ last.op = "generate_graph" /\ last.res = OK
    /\ Len(nodes) = 3 /\ Len(edges) >= 2
    /\ DOMAIN results = NodeIndices(nodes)
    /\ FollowingMissing.res = OK

\* -------------------------------------------------------------------- C19
\* The last call replaced an edge in a graph that generate_graph had
\* evaluated with success (every node held its entry).
ReplacedAfterGenerate ==
    /\ LastAddEdgeOk /\ last.occupied
    /\ DOMAIN last.pre_results = NodeIndices(nodes)

\* C19 as claimed: from a successfully generated graph, after one successful
\* replacement add_edge, the following generate_graph_missing invokes generate
\* exactly once for the destination and for each node reachable from it, and
\* for no other node.
C19_Original ==
    ReplacedAfterGenerate =>
        LET R == Reachable(EdgeSet(edges), last.dst)
        IN \A n \in NodeIndices(nodes) :
               CallsOf(FollowingMissing.calls, "generate", n) = IF n \in R THEN 1 ELSE 0

\* C19 as amended: the following generate_graph_missing invokes generate for
\* no node outside the destination and the nodes reachable from it, and at
\* most once for each of those; if it succeeds, exactly once for each of them;
\* if it fails, it is is_valid that rejected the inputs of one of them.
C19_RecomputesOnlyAffected ==
    ReplacedAfterGenerate =>
        LET R == Reachable(EdgeSet(edges), last.dst)
            r == FollowingMissing
        IN /\ \A n \in NodeIndices(nodes) \ R : CallsOf(r.calls, "generate", n) = 0
           /\ \A n \in R : CallsOf(r.calls, "generate", n) <= 1
           /\ r.res = OK => \A n \in R : CallsOf(r.calls, "generate", n) = 1
           /\ r.res # OK =>
                  /\ r.res = ErrInvalid
                  /\ r.visited[Len(r.visited)] \in R

\* An edge into a node with a successor was replaced in a generated graph,
\* and the following generate_graph_missing succeeds.
C19_Witness ==
    /\ ReplacedAfterGenerate
    /\ Reachable(EdgeSet(edges), last.dst) # {last.dst}
    /\ FollowingMissing.res = OK
    /\ FollowingMissing.results # results

\* -------------------------------------------------------------------- C20
\* C20: right after a successful add_edge into an empty slot neither the
\* destination nor any node reachable from it holds a cache entry.
C20_NewEdgeTargetUncached ==
    (LastAddEdgeOk /\ ~last.occupied) =>
        Reachable(EdgeSet(edges), last.dst) \cap DOMAIN results = {}

\* An edge from a cached source into an empty slot of a node that has a
\* successor, in a graph where nodes have been generated.
C20_Witness ==
    /\ LastAddEdgeOk /\ ~last.occupied
    /\ last.src \in DOMAIN results
    /\ Reachable(EdgeSet(edges), last.dst) # {last.dst}

\* -------------------------------------------------------------------- C21
\* C21: in every reachable state every node with a cache entry is a live node
\* whose number of incoming edges equals its transformer's arity.
C21_CachedIsComplete ==
    \A n \in DOMAIN results :
        /\ n \in 1..Len(nodes)
        /\ InDegree(edges, n) = inputs(nodes[n])

\* A replacement of an input of a cached node was just refused for closing a
\* cycle: the node keeps its entry.
C21_Witness ==
    /\ LastAddEdge /\ last.res = ErrCycle /\ last.occupied
    /\ last.dst \in DOMAIN results
    /\ inputs(nodes[last.dst]) = 2

\* -------------------------------------------------------------------- C22
\* Node n has exactly one edge into each of its slots 0..arity-1.
EverySlotFed(ns, E, n) ==
    \A w \in 0..(inputs(ns[n]) - 1) : Cardinality(SlotEdges(E, n, w)) = 1

\* C22: node_complete(i) holds exactly when the in-degree of i equals its
\* arity, which in every reachable state is the same as every slot of i being
\* fed by exactly one edge; graph_complete holds exactly when every node is
\* complete, so it holds of the empty graph.
C22_CompleteIffEverySlotFed ==
    /\ \A i \in NodeIndices(nodes) :
           /\ node_complete(nodes, edges, i) <=> InDegree(edges, i) = inputs(nodes[i])
           /\ node_complete(nodes, edges, i) <=> EverySlotFed(nodes, EdgeSet(edges), i)
    /\ graph_complete(nodes, edges) <=>
           \A i \in 1..Len(nodes) : InDegree(edges, i) = inputs(nodes[i])
    /\ nodes = <<>> => graph_complete(nodes, edges)
    /\ (last.op = "node_complete" /\ last.res = OK) =>
           last.ret = {InDegree(edges, last.src) = inputs(nodes[last.src])}

\* node_complete just answered true for a node of arity two in a graph that
\* is not complete.
C22_Witness ==
    /\ last.op = "node_complete" /\ last.res = OK /\ last.ret = {TRUE}
    /\ inputs(nodes[last.src]) = 2
    /\ ~graph_complete(nodes, edges)

\* -------------------------------------------------------------------- C23
LastTraversal == last.op \in {"generate_graph", "generate_graph_missing"}

\* The place of node n in the sequence order (0 when it is not in it).
Position(order, n) ==
    IF \E k \in 1..Len(order) : order[k] = n
    THEN CHOOSE k \in 1..Len(order) : order[k] = n
    ELSE 0

\* C23: the traversal order holds every node once and every edge's source
\* before its target; when generate_graph or generate_graph_missing evaluates
\* a node, each of its predecessors was evaluated earlier in the same call (or
\* held an entry that generate_graph_missing skipped), so neither call fails
\* with the predecessors error.
C23_PredecessorsFirst ==
    LET E == EdgeSet(edges)
        order == Topo(nodes, edges)
    IN /\ Len(order) = Len(nodes)
       /\ \A n \in 1..Len(nodes) : Position(order, n) # 0
       /\ \A e \in E : Position(order, e.source) < Position(order, e.target)
       /\ LastTraversal =>
              /\ last.res # ErrPredecessors
              /\ \A k \in 1..Len(last.visited) :
                     \A p \in Predecessors(E, last.visited[k]) :
                         \/ \E j \in 1..(k - 1) : last.visited[j] = p
                         \/ /\ last.op = "generate_graph_missing"
                            /\ p \in DOMAIN last.pre_results

\* generate_graph succeeded on a graph with a node fed by two different
\* nodes.
C23_Witness ==
    /\ last.op = "generate_graph" /\ last.res = OK
    /\ \E n \in 1..Len(nodes) : Cardinality(Predecessors(EdgeSet(edges), n)) = 2

\* -------------------------------------------------------------------- C24
\* C24: add_node succeeds, returns an index no earlier node has, makes the
\* node count one larger, holds the given transformer at that index, adds no
\* edge and leaves every edge and every cache entry as it was.
C24_AddNodeFrame ==
    last.op = "add_node" =>
        /\ last.res = OK
        /\ last.src \notin 1..last.pre_nodes
        /\ last.src \in NodeIndices(nodes)
        /\ node_count(nodes) = last.pre_nodes + 1
        /\ edges = last.pre_edges
        /\ results = last.pre_results

\* A node was added to a graph with edges and cache entries.
C24_Witness ==
    /\ last.op = "add_node"
    /\ Len(edges) >= 1
    /\ DOMAIN results # {}

\* -------------------------------------------------------------------- C25
\* C25: get_node returns the node of every index that add_node has issued
\* and nothing (without crashing) for any other index, and changes neither
\* nodes, edges, cache nor the cached flag.
C25_GetNodeTotal ==
    last.op = "get_node" =>
        /\ last.res = OK
        /\ last.src \in 1..Len(nodes) => last.ret = {nodes[last.src]}
        /\ last.src \notin 1..Len(nodes) => last.ret = {}
        /\ Len(nodes) = last.pre_nodes
        /\ edges = last.pre_edges
        /\ results = last.pre_results
        /\ cached = last.pre_cached

\* get_node was asked for an index that no node of a non-empty graph has.
C25_Witness ==
    /\ last.op = "get_node"
    /\ Len(nodes) >= 1
    /\ last.src \notin 1..Len(nodes)
    /\ last.ret = {}

\* -------------------------------------------------------------------- C26
\* C26: generate_node, node_complete and invalidate_nodes called with an
\* index that no node has return the unknown-node failure and leave nodes,
\* edges and cache as they were.
C26_UnknownNodeReported ==
    (/\ last.op \in {"generate_node", "node_complete", "invalidate_nodes"}
     /\ last.src \notin 1..last.pre_nodes) =>
        /\ last.res = ErrUnknown
        /\ Len(nodes) = last.pre_nodes
        /\ edges = last.pre_edges
        /\ results = last.pre_results

\* -------------------------------------------------------------------- C27
\* C27: generate_node(i) calls the transformer of no node but i, leaves the
\* entry of every other node (present or absent) as it was, and changes
\* neither the nodes nor the edges.
C27_GenerateNodeFrame ==
    LastGenerateNode =>
        /\ \A n \in (DOMAIN results \cup DOMAIN last.pre_results) \ {last.src} :
               /\ n \in DOMAIN results
               /\ n \in DOMAIN last.pre_results
               /\ results[n] = last.pre_results[n]
        /\ \A k \in 1..Len(last.calls) : last.calls[k].node = last.src
        /\ Len(nodes) = last.pre_nodes
        /\ edges = last.pre_edges

\* A node with a cached predecessor and a cached successor was generated
\* again.
C27_Witness ==
    /\ LastGenerateNode /\ last.res = OK
    /\ Predecessors(EdgeSet(edges), last.src) # {}
    /\ (Reachable(EdgeSet(edges), last.src) \ {last.src}) \cap DOMAIN results # {}

\* -------------------------------------------------------------------- C28
\* The value of node n as the graph alone determines it: its transformer
\* applied to the values of the sources of its slots, in slot order.
RECURSIVE Value(_, _, _)
Value(ns, E, n) ==
    generate(ns[n], [i \in 1..inputs(ns[n]) |-> Value(ns, E, SlotSource(E, n, i - 1))])

\* C28: after a successful generate_graph the cache is a function of the
\* nodes, their transformers and the set of edges only: whatever calls led to
\* the graph, in whatever order its edges were added and whatever the cache
\* held before, every node's entry is the value the graph determines.
C28_CacheFunctionOfGraph ==
    (last.op = "generate_graph" /\ last.res = OK) =>
        LET E == EdgeSet(edges)
        IN /\ \A n \in 1..Len(nodes) : EverySlotFed(nodes, E, n)
           /\ DOMAIN results = 1..Len(nodes)
           /\ \A n \in 1..Len(nodes) : results[n] = Value(nodes, E, n)

\* generate_graph succeeded from a cache that held some entries but not all,
\* on a graph whose edges were not added in slot order.
C28_Witness ==
    /\ last.op = "generate_graph" /\ last.res = OK
    /\ DOMAIN last.pre_results # {}
    /\ DOMAIN last.pre_results # 1..Len(nodes)
    /\ \E i, j \in 1..Len(edges) :
           i < j /\ edges[i].target = edges[j].target /\ edges[i].weight > edges[j].weight

\* -------------------------------------------------------------------- C29
\* C29: in every reachable state generate_graph succeeds exactly when
\* generate_graph_missing does, and when they succeed they leave the same
\* cache.
C29_MissingAgreesWithFull ==
    LET full == generate_graph(nodes, edges, results)
        missing == generate_graph_missing(nodes, edges, results)
    IN /\ (full.res = OK) <=> (missing.res = OK)
       /\ full.res = OK => missing.results = full.results

\* generate_graph_missing succeeded from a cache that held some entries but
\* not all, evaluated the rest, and left the cache generate_graph would have
\* left.
C29_Witness ==
    /\ last.op = "generate_graph_missing" /\ last.res = OK
    /\ DOMAIN last.pre_results # {}
    /\ last.visited # <<>>
    /\ generate_graph(nodes, last.pre_edges, last.pre_results).results = results

\* -------------------------------------------------------------------- C30
\* C30: in every reachable state every predecessor of a node with a cache
\* entry has a cache entry, so generate_node on a node that holds an entry
\* does not fail with the predecessors error.
C30_CachedClosedUnderPredecessors ==
    /\ \A n \in DOMAIN results :
           Predecessors(EdgeSet(edges), n) \subseteq DOMAIN results
    /\ (LastGenerateNode /\ last.src \in DOMAIN last.pre_results) =>
           last.res # ErrPredecessors

\* A cached node of arity two was generated again.
C30_Witness ==
    /\ LastGenerateNode /\ last.res = OK
    /\ last.src \in DOMAIN last.pre_results
    /\ inputs(nodes[last.src]) = 2

\* -------------------------------------------------------------------- C31
\* C31: in every reachable state every edge has live endpoints, a source
\* different from its target and a slot below the arity of its target, and
\* no node has more incoming edges than its arity.
C31_EdgesValid ==
    /\ \A k \in 1..Len(edges) :
           /\ edges[k].source \in 1..Len(nodes)
           /\ edges[k].target \in 1..Len(nodes)
           /\ edges[k].source # edges[k].target
           /\ edges[k].weight < inputs(nodes[edges[k].target])
    /\ \A n \in 1..Len(nodes) : InDegree(edges, n) <= inputs(nodes[n])

\* An edge into slot arity(destination) of a node whose slots are all fed
\* was just refused.
C31_Witness ==
    /\ LastAddEdge /\ last.res = ErrTarget
    /\ last.slot = inputs(nodes[last.dst])
    /\ last.slot = 2
    /\ InDegree(edges, last.dst) = 2

\* -------------------------------------------------------------------- C32
\* The values of the transformers without inputs.
SourceValues == {generate(t, <<>>) : t \in {u \in Transformers : inputs(u) = 0}}

\* is_valid of f accepts every input list over those values.
AlwaysValid(f) == \A in \in [1..inputs(f) -> SourceValues] : is_valid(f, in)

\* The places in the sequence order of the nodes that are not complete.
IncompletePlaces(order) ==
    {k \in 1..Len(order) : InDegree(edges, order[k]) # inputs(nodes[order[k]])}

\* C32: on a graph all of whose transformers accept every input,
\* generate_graph succeeds exactly when graph_complete holds; otherwise it
\* fails with the not-completed error at the first incomplete node of the
\* topological order, having evaluated the nodes before it.
C32_SucceedsIffComplete ==
    (last.op = "generate_graph" /\ \A n \in 1..Len(nodes) : AlwaysValid(nodes[n])) =>
        LET order == Topo(nodes, edges)
            bad == IncompletePlaces(order)
        IN /\ last.res = OK <=> graph_complete(nodes, edges)
           /\ bad # {} =>
                  LET first == CHOOSE k \in bad : \A j \in bad : k <= j
                  IN /\ last.res = ErrIncomplete
                     /\ last.visited = SubSeq(order, 1, first)

\* generate_graph failed at an incomplete node after evaluating two nodes,
\* all transformers accepting every input.
C32_Witness ==
    /\ last.op = "generate_graph" /\ last.res = ErrIncomplete
    /\ \A n \in 1..Len(nodes) : AlwaysValid(nodes[n])
    /\ Len(last.visited) = 3

\* -------------------------------------------------------------------- C33
\* C33: add_edge reports the first failure in the order unknown node,
\* self-edge, invalid target slot, cycle: an unknown source or destination
\* gives the unknown-node failure whatever the slot, add_edge(N, N, k) gives
\* the self-edge failure also when k >= arity(N), and an out-of-range slot
\* gives the invalid-target failure also when the edge would close a cycle.
C33_AddEdgeCheckOrder ==
    LastAddEdge =>
        LET live == last.src \in 1..last.pre_nodes /\ last.dst \in 1..last.pre_nodes
        IN /\ ~live => last.res = ErrUnknown
           /\ (live /\ last.src = last.dst) => last.res = ErrSelf
           /\ (live /\ last.src # last.dst /\ last.slot >= inputs(nodes[last.dst])) =>
                  last.res = ErrTarget
           /\ last.res = ErrCycle =>
                  (live /\ last.src # last.dst /\ last.slot < inputs(nodes[last.dst]))

\* add_edge(N, N, k) with k >= arity(N) on a live node N of a graph with
\* edges.
C33_Witness ==
    /\ LastAddEdge /\ last.src = last.dst
    /\ last.src \in 1..Len(nodes)
    /\ last.slot >= inputs(nodes[last.dst])
    /\ last.res = ErrSelf
    /\ Len(edges) >= 1

\* -------------------------------------------------------------------- C34
\* One step keeps every occupied slot occupied, does not lower the number of
\* edges and keeps every complete node complete.
MonotoneStep ==
    /\ \A e \in EdgeSet(edges) : SlotEdges(EdgeSet(edges'), e.target, e.weight) # {}
    /\ Len(edges') >= Len(edges)
    /\ \A n \in 1..Len(nodes) :
           InDegree(edges, n) = inputs(nodes[n]) =>
               /\ n \in 1..Len(nodes')
               /\ InDegree(edges', n) = inputs(nodes'[n])

\* C34: slot occupancy is monotone: every step of every behaviour keeps each
\* occupied slot occupied, so the edge count never decreases and a complete
\* node stays complete.
C34_SlotOccupancyMonotone == [][MonotoneStep]_vars

\* The source of a slot of a complete node of arity two was just replaced:
\* the slot stays occupied and the node complete.
C34_Witness ==
    /\ LastAddEdgeOk /\ last.occupied
    /\ SlotSource(PreEdgeSet, last.dst, last.slot) # last.src
    /\ inputs(nodes[last.dst]) = 2
    /\ InDegree(edges, last.dst) = 2

\* -------------------------------------------------------------------- C35
\* No node occurs twice in the sequence s.
NoNodeTwice(s) == \A i, j \in 1..Len(s) : s[i] = s[j] => i = j

\* What is left of the traversal in progress: the entries of the iterator's
\* stack, and for each node it has not marked the node and its outgoing
\* edges; a call that has not returned counts one, one not yet finished two.
WalkMeasure ==
    IF walk.kind = "none" THEN 0
    ELSE 1 + (IF walk.res = InProgress THEN 1 ELSE 0)
           + Len(walk.tovisit)
           + Cardinality((1..Len(nodes)) \ walk.ordered)
           + Cardinality({k \in 1..Len(edges) : edges[k].source \notin walk.ordered})

\* C35: every call of generate_graph, generate_graph_missing and
\* invalidate_nodes on a built graph terminates (every transformer call
\* returning) and its iterator yields no node twice: a call in progress is
\* in one of its loops or at its return, so its next step can be taken, and
\* every step lowers WalkMeasure, a natural number; under the fairness of
\* SpecWalk the call returns after at most WalkMeasure steps.
C35_TraversalsTerminate ==
    /\ [](/\ NoNodeTwice(walk.visited)
          /\ walk.kind # "none" => (InTopoLoop \/ InBfsLoop \/ AtReturn))
    /\ [][walk.kind # "none" => WalkMeasure' < WalkMeasure]_vars

\* generate_graph is about to return Ok after three nodes, one of them fed
\* twice by the same node (it is pushed twice and yielded once).
C35_Witness ==
    /\ walk.kind = "generate_graph" /\ walk.res = OK
    /\ Len(walk.visited) = 3
    /\ \E i, j \in 1..Len(edges) :
           i # j /\ edges[i].source = edges[j].source /\ edges[i].target = edges[j].target

====
